---------------------------- MODULE Spec2Model ----------------------------
(***************************************************************************)
(* A model of the AGXCL JavaScript SDK client (src/src/index.ts).          *)
(*                                                                         *)
(* AgefixClient holds a configuration and an axios transport.  Each of its *)
(* six operations is an async function: the part up to the await of        *)
(* this.http.post / this.http.get runs when the caller invokes it (one     *)
(* action per operation), the part after the await runs when the transport *)
(* settles the request (the Respond, RespondError and Timeout actions,     *)
(* which run the operation's continuation).                                *)
(***************************************************************************)
EXTENDS Integers, Sequences, FiniteSets, TLC

VARIABLES
    config,     \* AgefixClient.config, as passed to the constructor
    calls,      \* the promises the client handed out, in order of invocation
    requests,   \* every call of this.http.post / this.http.get, in order
    applied,    \* the write requests the remote service has applied
    helpers,    \* the TokenContract and NFTContract instances constructed
    hcalls      \* the promises the helpers handed out, in order of invocation

\* The state of the helpers.
hvars == <<helpers, hcalls>>

vars == <<config, calls, requests, applied, helpers, hcalls>>

(***************************************************************************)
(* Bounds of the model.                                                    *)
(***************************************************************************)
\* The number of client calls the caller makes directly.
MaxCalls == 2

\* The number of helper calls the caller makes.
MaxHelperCalls == 2

MaxRedeployCalls == 3

(***************************************************************************)
(* JavaScript values.  A value carries its type, so that a string and a    *)
(* number with the same digits differ, and an object carries its fields.   *)
(***************************************************************************)
Undefined == [t |-> "undefined", v |-> "undefined"]

Null == [t |-> "null", v |-> "null"]

Str(s) == [t |-> "string", v |-> s]

Num(s) == [t |-> "number", v |-> s]

Bool(b) == [t |-> "boolean", v |-> IF b THEN "true" ELSE "false"]

Obj(fields) == [t |-> "object", f |-> fields]

\* An array literal.
Arr(elements) == [t |-> "array", e |-> elements]

\* new Error(message)
Err(message) == [t |-> "error", v |-> message]

\* x != null in place of !x: only undefined and null count as absent.
DefinedOnly(x) == x.t \notin {"undefined", "null"}

\* !x is false: every value but undefined, null, "", 0, NaN and false.
Truthy(x) ==
    CASE x.t \in {"undefined", "null"} -> FALSE
      [] x.t = "string" -> x.v # ""
      [] x.t = "number" -> x.v \notin {"0", "NaN"}
      [] x.t = "boolean" -> x.v = "true"
      [] OTHER -> TRUE

\* Reading x.name throws a TypeError when x is null or undefined.
ReadThrows(x) == x.t \in {"undefined", "null"}

\* x.name for a value whose properties can be read: the field of an object
\* that has it, undefined otherwise.
Get(x, name) ==
    IF x.t = "object" /\ name \in DOMAIN x.f THEN x.f[name] ELSE Undefined

\* The message of the TypeError that reading x.name throws.
TypeErrorMessage(x, name) ==
    "Cannot read properties of " \o x.v \o " (reading '" \o name \o "')"

(***************************************************************************)
(* The configuration: AgefixConfig.  privateKey is optional.               *)
(***************************************************************************)
ChainIds == {Str("agefix-mainnet-1"), Str("agefix-testnet-1")}

PrivateKeys == {Undefined, Str(""), Str("k1")}

Configs ==
    [rpcUrl : {"https://rpc.agefix.com"}, chainId : ChainIds,
     privateKey : PrivateKeys]

(***************************************************************************)
(* The inputs the caller passes.                                           *)
(***************************************************************************)
Addresses == {Str("0xabc"), Str("0xdef")}

Contracts == {Str("0xabc")}

Accounts == {Str("0xdef")}

TxHashes == {Str("0x1")}

Codes == {Str("contract Token {}")}

\* An omitted optional parameter is undefined and takes its default.
DeployArgs == {Undefined}

QueryArgs == {Arr(<<Str("0xdef")>>)}

ExecuteArgs == {Arr(<<Str("0xdef"), Str("100")>>)}

ExecuteValues == {Undefined, Str("5")}

EstimateArgs == {Undefined}

\* A parameter's default value: param = dflt in the parameter list.
Default(x, dflt) == IF x = Undefined THEN dflt ELSE x

(***************************************************************************)
(* The transport: axios.create({baseURL, timeout: 30000, headers}).        *)
(* A request is settled once: by a response with a 2xx status, whose body  *)
(* axios hands over as response.data; by a response with another status,   *)
(* which axios turns into an error; or by the timeout.                     *)
(***************************************************************************)
TimeoutMs == 30000

TimeoutMessage == "timeout of " \o ToString(TimeoutMs) \o "ms exceeded"

StatusMessages == {"Request failed with status code 500"}

NoResponse == [kind |-> "none"]

OkResponse(data) == [kind |-> "ok", data |-> data]

ErrorResponse(message) == [kind |-> "error", message |-> message]

\* The bodies the remote service may send with a 2xx status, per operation.
\* The service is not part of the repository: a body may lack a field, carry
\* a number where a string is expected, or be the JSON value null.
ResponseBodies(op) ==
    CASE op = "deployContract" ->
           { Obj([contractAddress |-> Str("0xabc"), txHash |-> Str("0x1"),
                  blockNumber |-> Num("10")]),
             Obj([contractAddress |-> Str("0xdef"), txHash |-> Str("0x3"),
                  blockNumber |-> Num("12")]),
             Obj([txHash |-> Str("0x1"), blockNumber |-> Num("10")]),
             Null }
      [] op = "queryContract" ->
           { Obj([result |-> Str("100")]), Obj([result |-> Num("100")]),
             Obj([result |-> Null]), Null }
      [] op = "executeTransaction" ->
           { Obj([txHash |-> Str("0x2"), blockNumber |-> Num("11"),
                  gasUsed |-> Num("21000")]),
             Obj([txHash |-> Str("0x2"), blockNumber |-> Num("11"),
                  gasUsed |-> Num("21000"), success |-> Bool(FALSE)]),
             Null }
      [] op = "getTransactionReceipt" ->
           { Obj([status |-> Str("success"), gasUsed |-> Num("21000")]),
             Null }
      [] op = "getBalance" ->
           { Obj([balance |-> Str("1000")]), Obj([balance |-> Num("1000")]),
             Null }
      [] op = "estimateGas" ->
           { Obj([gasEstimate |-> Num("21000")]), Null }

WriteOps == {"deployContract", "executeTransaction"}

ReadOps ==
    {"queryContract", "getTransactionReceipt", "getBalance", "estimateGas"}

\* this.http.post(url, body): the request as the transport sees it.
HttpPost(id, url, body) ==
    Append(requests, [call |-> id, verb |-> "POST", url |-> url, body |-> body])

\* this.http.get(url)
HttpGet(id, url) ==
    Append(requests, [call |-> id, verb |-> "GET", url |-> url])

(***************************************************************************)
(* Promises.  An async function returns a promise: pending while it awaits *)
(* the transport, then fulfilled with the returned value or rejected with  *)
(* the thrown error.                                                       *)
(***************************************************************************)
Pending(op) ==
    [op |-> op, promise |-> "pending", result |-> Undefined,
     response |-> NoResponse]

Rejected(op, message) ==
    [op |-> op, promise |-> "rejected", result |-> Err(message),
     response |-> NoResponse]

Fulfil(value) == [promise |-> "fulfilled", result |-> value]

Reject(message) == [promise |-> "rejected", result |-> Err(message)]

\* error.message in a catch block around the await and the reads of
\* response.data.<name>: the transport's error, or the TypeError of the read.
CaughtMessage(response, name) ==
    IF response.kind = "ok"
        THEN TypeErrorMessage(response.data, name)
        ELSE response.message

\* The try block reached its return statement.
TryReturns(response) ==
    response.kind = "ok" /\ ~ReadThrows(response.data)

(***************************************************************************)
(* The operations of AgefixClient.  For each: the part after the await     *)
(* (<Operation>Settled, given how the transport settled the request) and   *)
(* the part the invocation runs (<Operation>).                             *)
(***************************************************************************)
Init ==
    /\ config \in Configs
    /\ calls = <<>>
    /\ requests = <<>>
    /\ applied = {}
    /\ helpers = <<>>
    /\ hcalls = <<>>

\* The credential check left out.
PrivateKeyNeverMissing == FALSE

\* if (!this.config.privateKey)
PrivateKeyMissing == ~Truthy(config.privateKey)

\* A deployment read by the names of the result, not of the response: the
\* response has no transactionHash.
DeployContractSameNames(response) ==
    IF TryReturns(response)
        THEN Fulfil(Obj([contractAddress |-> Get(response.data, "contractAddress"),
                         transactionHash |-> Get(response.data, "transactionHash"),
                         blockNumber |-> Get(response.data, "blockNumber")]))
        ELSE Reject("Contract deployment failed: "
                    \o CaughtMessage(response, "contractAddress"))

\* A deployment failure swallowed the way a query failure is.
DeployContractSwallowing(response) ==
    IF TryReturns(response)
        THEN Fulfil(Obj([contractAddress |-> Get(response.data, "contractAddress"),
                         transactionHash |-> Get(response.data, "txHash"),
                         blockNumber |-> Get(response.data, "blockNumber")]))
        ELSE Fulfil(Null)

DeployContractSettled(response) ==
    IF TryReturns(response)
        THEN Fulfil(Obj([contractAddress |-> Get(response.data, "contractAddress"),
                         transactionHash |-> Get(response.data, "txHash"),
                         blockNumber |-> Get(response.data, "blockNumber")]))
        ELSE Reject("Contract deployment failed: "
                    \o CaughtMessage(response, "contractAddress"))

DeployContractCall(contractCode, constructorArgs) ==
    /\ requests' = HttpPost(Len(calls) + 1, "/deploy",
                            [code |-> contractCode,
                             args |-> Default(constructorArgs, Arr(<<>>)),
                             chainId |-> config.chainId,
                             privateKey |-> config.privateKey])
    /\ calls' = Append(calls, Pending("deployContract"))
    /\ UNCHANGED <<config, applied>>

\* The caller invokes the operation on the client.
DeployContract(contractCode, constructorArgs) ==
    /\ Len(calls) < MaxCalls
    /\ DeployContractCall(contractCode, constructorArgs)
    /\ UNCHANGED hvars

\* A query that throws like the other operations do.
QueryContractThrowing(response) ==
    IF TryReturns(response)
        THEN Fulfil(Obj([success |-> Bool(TRUE),
                         data |-> Get(response.data, "result")]))
        ELSE Reject("Query failed: " \o CaughtMessage(response, "result"))

\* A query that drops the caught message.
QueryContractNoMessage(response) ==
    IF TryReturns(response)
        THEN Fulfil(Obj([success |-> Bool(TRUE),
                         data |-> Get(response.data, "result")]))
        ELSE Fulfil(Obj([success |-> Bool(FALSE), data |-> Null]))

QueryContractSettled(response) ==
    IF TryReturns(response)
        THEN Fulfil(Obj([success |-> Bool(TRUE),
                         data |-> Get(response.data, "result")]))
        ELSE Fulfil(Obj([success |-> Bool(FALSE),
                         data |-> Null,
                         error |-> Str(CaughtMessage(response, "result"))]))

\* A query that sends the credential along, the way a write does.
QueryContractLeaking(contractAddress, method, args) ==
    /\ requests' = HttpPost(Len(calls) + 1, "/query",
                            [contractAddress |-> contractAddress,
                             method |-> method,
                             args |-> Default(args, Arr(<<>>)),
                             chainId |-> config.chainId,
                             privateKey |-> config.privateKey])
    /\ calls' = Append(calls, Pending("queryContract"))
    /\ UNCHANGED <<config, applied>>

QueryContractCall(contractAddress, method, args) ==
    /\ requests' = HttpPost(Len(calls) + 1, "/query",
                            [contractAddress |-> contractAddress,
                             method |-> method,
                             args |-> Default(args, Arr(<<>>)),
                             chainId |-> config.chainId])
    /\ calls' = Append(calls, Pending("queryContract"))
    /\ UNCHANGED <<config, applied>>

\* The caller invokes the operation on the client.
QueryContract(contractAddress, method, args) ==
    /\ Len(calls) < MaxCalls
    /\ QueryContractCall(contractAddress, method, args)
    /\ UNCHANGED hvars

\* The remote's own success flag passed through.
ExecuteTransactionRemoteFlag(response) ==
    IF TryReturns(response)
        THEN Fulfil(Obj([txHash |-> Get(response.data, "txHash"),
                         blockNumber |-> Get(response.data, "blockNumber"),
                         gasUsed |-> Get(response.data, "gasUsed"),
                         success |-> Get(response.data, "success")]))
        ELSE Reject("Transaction execution failed: "
                    \o CaughtMessage(response, "txHash"))

\* A failure reported in the result instead of raised.
ExecuteTransactionInBand(response) ==
    IF TryReturns(response)
        THEN Fulfil(Obj([txHash |-> Get(response.data, "txHash"),
                         blockNumber |-> Get(response.data, "blockNumber"),
                         gasUsed |-> Get(response.data, "gasUsed"),
                         success |-> Bool(TRUE)]))
        ELSE Fulfil(Obj([txHash |-> Undefined, blockNumber |-> Undefined,
                         gasUsed |-> Undefined, success |-> Bool(FALSE)]))

ExecuteTransactionSettled(response) ==
    IF TryReturns(response)
        THEN Fulfil(Obj([txHash |-> Get(response.data, "txHash"),
                         blockNumber |-> Get(response.data, "blockNumber"),
                         gasUsed |-> Get(response.data, "gasUsed"),
                         success |-> Bool(TRUE)]))
        ELSE Reject("Transaction execution failed: "
                    \o CaughtMessage(response, "txHash"))

\* An execute that does not await the transport: it posts the request and
\* returns at once.
ExecuteTransactionNoAwait(contractAddress, method, args, value) ==
    /\ IF PrivateKeyMissing
           THEN /\ calls' = Append(calls,
                        Rejected("executeTransaction",
                                 "Private key required for transactions"))
                /\ UNCHANGED requests
           ELSE /\ requests' = HttpPost(Len(calls) + 1, "/execute",
                        [contractAddress |-> contractAddress,
                         method |-> method,
                         args |-> Default(args, Arr(<<>>)),
                         value |-> Default(value, Str("0")),
                         chainId |-> config.chainId,
                         privateKey |-> config.privateKey])
                /\ calls' = Append(calls,
                        [op |-> "executeTransaction", promise |-> "fulfilled",
                         result |-> Undefined, response |-> NoResponse])
    /\ UNCHANGED <<config, applied>>

\* The credential check moved into the try block: its error is wrapped.
ExecuteTransactionPrefixed(contractAddress, method, args, value) ==
    /\ IF PrivateKeyMissing
           THEN /\ calls' = Append(calls,
                        Rejected("executeTransaction",
                                 "Transaction execution failed: "
                                 \o "Private key required for transactions"))
                /\ UNCHANGED requests
           ELSE /\ requests' = HttpPost(Len(calls) + 1, "/execute",
                        [contractAddress |-> contractAddress,
                         method |-> method,
                         args |-> Default(args, Arr(<<>>)),
                         value |-> Default(value, Str("0")),
                         chainId |-> config.chainId,
                         privateKey |-> config.privateKey])
                /\ calls' = Append(calls, Pending("executeTransaction"))
    /\ UNCHANGED <<config, applied>>

\* An execute that drops the credential from the configuration once used.
ExecuteTransactionForgetting(contractAddress, method, args, value) ==
    /\ IF PrivateKeyMissing
           THEN /\ calls' = Append(calls,
                        Rejected("executeTransaction",
                                 "Private key required for transactions"))
                /\ UNCHANGED <<requests, config>>
           ELSE /\ requests' = HttpPost(Len(calls) + 1, "/execute",
                        [contractAddress |-> contractAddress,
                         method |-> method,
                         args |-> Default(args, Arr(<<>>)),
                         value |-> Default(value, Str("0")),
                         chainId |-> config.chainId,
                         privateKey |-> config.privateKey])
                /\ calls' = Append(calls, Pending("executeTransaction"))
                /\ config' = [config EXCEPT !.privateKey = Undefined]
    /\ UNCHANGED applied

ExecuteTransactionCall(contractAddress, method, args, value) ==
    /\ IF PrivateKeyMissing
           THEN /\ calls' = Append(calls,
                        Rejected("executeTransaction",
                                 "Private key required for transactions"))
                /\ UNCHANGED requests
           ELSE /\ requests' = HttpPost(Len(calls) + 1, "/execute",
                        [contractAddress |-> contractAddress,
                         method |-> method,
                         args |-> Default(args, Arr(<<>>)),
                         value |-> Default(value, Str("0")),
                         chainId |-> config.chainId,
                         privateKey |-> config.privateKey])
                /\ calls' = Append(calls, Pending("executeTransaction"))
    /\ UNCHANGED <<config, applied>>

\* The caller invokes the operation on the client.
ExecuteTransaction(contractAddress, method, args, value) ==
    /\ Len(calls) < MaxCalls
    /\ ExecuteTransactionCall(contractAddress, method, args, value)
    /\ UNCHANGED hvars

\* A receipt lookup that returns null for a failure, in place of raising.
GetTransactionReceiptInBand(response) ==
    IF response.kind = "ok"
        THEN Fulfil(response.data)
        ELSE Fulfil(Null)

\* return response.data: no property of the body is read.
GetTransactionReceiptSettled(response) ==
    IF response.kind = "ok"
        THEN Fulfil(response.data)
        ELSE Reject("Failed to get transaction receipt: " \o response.message)

GetTransactionReceipt(txHash) ==
    /\ Len(calls) < MaxCalls
    /\ requests' = HttpGet(Len(calls) + 1, "/tx/" \o txHash.v)
    /\ calls' = Append(calls, Pending("getTransactionReceipt"))
    /\ UNCHANGED <<config, applied, helpers, hcalls>>

GetBalanceSettled(response) ==
    IF TryReturns(response)
        THEN Fulfil(Get(response.data, "balance"))
        ELSE Reject("Failed to get balance: "
                    \o CaughtMessage(response, "balance"))

\* A balance lookup gated on the credential, the way execute is.
GetBalanceGated(address) ==
    /\ Len(calls) < MaxCalls
    /\ IF PrivateKeyMissing
           THEN /\ calls' = Append(calls,
                        Rejected("getBalance",
                                 "Private key required for transactions"))
                /\ UNCHANGED requests
           ELSE /\ requests' = HttpGet(Len(calls) + 1, "/balance/" \o address.v)
                /\ calls' = Append(calls, Pending("getBalance"))
    /\ UNCHANGED <<config, applied, helpers, hcalls>>

GetBalance(address) ==
    /\ Len(calls) < MaxCalls
    /\ requests' = HttpGet(Len(calls) + 1, "/balance/" \o address.v)
    /\ calls' = Append(calls, Pending("getBalance"))
    /\ UNCHANGED <<config, applied, helpers, hcalls>>

EstimateGasSettled(response) ==
    IF TryReturns(response)
        THEN Fulfil(Get(response.data, "gasEstimate"))
        ELSE Reject("Failed to estimate gas: "
                    \o CaughtMessage(response, "gasEstimate"))

EstimateGas(contractAddress, method, args) ==
    /\ Len(calls) < MaxCalls
    /\ requests' = HttpPost(Len(calls) + 1, "/estimateGas",
                            [contractAddress |-> contractAddress,
                             method |-> method,
                             args |-> Default(args, Arr(<<>>)),
                             chainId |-> config.chainId])
    /\ calls' = Append(calls, Pending("estimateGas"))
    /\ UNCHANGED <<config, applied, helpers, hcalls>>

(***************************************************************************)
(* The helpers TokenContract and NFTContract.  A helper holds the client   *)
(* and a contract address, which the constructor takes as an optional      *)
(* argument and deploy overwrites.  Each method is an async function that  *)
(* awaits one client operation: it is resumed in the step that settles     *)
(* that operation, before anything else runs.                              *)
(***************************************************************************)
HelperNames == {"token", "nft"}

\* new TokenContract(client, contractAddress): given keeps the argument,
\* contractAddress is the field.
Helper(contractAddress) ==
    [given |-> contractAddress, contractAddress |-> contractAddress]

\* The contract source the deploy methods build from their arguments.
TokenCode(name, symbol, totalSupply) ==
    Str("contract Token { name = " \o name.v \o "; symbol = " \o symbol.v
        \o "; totalSupply = " \o totalSupply.v \o " }")

NFTCode(name, symbol) ==
    Str("contract NFT { name = " \o name.v \o "; symbol = " \o symbol.v \o " }")

\* Read methods that look at the success flag of the query and raise its
\* error.
HelperReturnChecked(method, call) ==
    IF call.promise = "fulfilled" /\ method \in {"balanceOf", "ownerOf"}
        THEN IF Get(call.result, "success") = Bool(TRUE)
                 THEN Fulfil(Get(call.result, "data"))
                 ELSE Reject(Get(call.result, "error").v)
        ELSE [promise |-> call.promise, result |-> call.result]

\* What a helper method makes of the client operation it awaited:
\* balanceOf and ownerOf return result.data, the others what the client
\* returned, and a rejection of the client is the method's own.
HelperReturn(method, call) ==
    IF call.promise = "fulfilled" /\ method \in {"balanceOf", "ownerOf"}
        THEN Fulfil(Get(call.result, "data"))
        ELSE [promise |-> call.promise, result |-> call.result]

\* The address check left out.
NotDeployedNever(h) == FALSE

\* if (!this.contractAddress) throw new Error('Contract not deployed')
NotDeployed(h) == ~Truthy(helpers[h].contractAddress)

HelperThrows(h, method) ==
    /\ hcalls' = Append(hcalls,
                    [helper |-> h, method |-> method, promise |-> "rejected",
                     result |-> Err("Contract not deployed"), inner |-> 0])
    /\ UNCHANGED <<config, calls, requests, applied, helpers>>

\* The method awaits the client operation it has just invoked.
HelperAwaits(h, method) ==
    LET inner == Len(calls')
        made == HelperReturn(method, calls'[inner])
    IN  hcalls' = Append(hcalls,
                    [helper |-> h, method |-> method, promise |-> made.promise,
                     result |-> made.result, inner |-> inner])

\* A deploy that marks the helper deployed when it is called, before the
\* deployment is known.
HelperDeployEager(h, code) ==
    /\ DeployContractCall(code, Undefined)
    /\ HelperAwaits(h, "deploy")
    /\ helpers' = [helpers EXCEPT ![h].contractAddress = Str("pending")]

\* const deployment = await this.client.deployContract(code);
HelperDeploy(h, code) ==
    /\ DeployContractCall(code, Undefined)
    /\ HelperAwaits(h, "deploy")
    /\ UNCHANGED helpers

HelperQuery(h, method, args) ==
    IF NotDeployed(h)
        THEN HelperThrows(h, method)
        ELSE /\ QueryContractCall(helpers[h].contractAddress, Str(method), args)
             /\ HelperAwaits(h, method)
             /\ UNCHANGED helpers

HelperExecute(h, method, args) ==
    IF NotDeployed(h)
        THEN HelperThrows(h, method)
        ELSE /\ ExecuteTransactionCall(helpers[h].contractAddress, Str(method),
                                       args, Undefined)
             /\ HelperAwaits(h, method)
             /\ UNCHANGED helpers

TokenDeploy(name, symbol, totalSupply) ==
    HelperDeploy("token", TokenCode(name, symbol, totalSupply))

TokenBalanceOf(address) == HelperQuery("token", "balanceOf", Arr(<<address>>))

TokenTransfer(to, amount) ==
    HelperExecute("token", "transfer", Arr(<<to, amount>>))

TokenApprove(spender, amount) ==
    HelperExecute("token", "approve", Arr(<<spender, amount>>))

NFTDeploy(name, symbol) == HelperDeploy("nft", NFTCode(name, symbol))

NFTMint(to, uri) == HelperExecute("nft", "mint", Arr(<<to, uri>>))

NFTOwnerOf(tokenId) == HelperQuery("nft", "ownerOf", Arr(<<tokenId>>))

\* The helper calls that await client call i.
Awaiting(i) ==
    {k \in DOMAIN hcalls : hcalls[k].inner = i /\ hcalls[k].promise = "pending"}

\* A deploy that returns the deployment and does not keep its address.
HelperResumeNoCapture(i) ==
    /\ hcalls' = [k \in DOMAIN hcalls |->
                     IF k \in Awaiting(i)
                         THEN [hcalls[k] EXCEPT
                                  !.promise = HelperReturn(hcalls[k].method,
                                                           calls'[i]).promise,
                                  !.result = HelperReturn(hcalls[k].method,
                                                          calls'[i]).result]
                         ELSE hcalls[k]]
    /\ UNCHANGED helpers

\* A deploy that keeps its address only if no deploy of the helper called
\* after it has returned already: the helper holds the address of the
\* deploy issued last.
HelperResumeLastIssued(i) ==
    /\ hcalls' = [k \in DOMAIN hcalls |->
                     IF k \in Awaiting(i)
                         THEN [hcalls[k] EXCEPT
                                  !.promise = HelperReturn(hcalls[k].method,
                                                           calls'[i]).promise,
                                  !.result = HelperReturn(hcalls[k].method,
                                                          calls'[i]).result]
                         ELSE hcalls[k]]
    /\ helpers' = [h \in DOMAIN helpers |->
                      IF \E k \in Awaiting(i) :
                             /\ hcalls[k].helper = h
                             /\ hcalls[k].method = "deploy"
                             /\ calls'[i].promise = "fulfilled"
                             /\ \A l \in DOMAIN hcalls :
                                    (l > k /\ hcalls[l].helper = h
                                        /\ hcalls[l].method = "deploy") =>
                                        hcalls[l].promise # "fulfilled"
                          THEN [helpers[h] EXCEPT !.contractAddress =
                                   Get(calls'[i].result, "contractAddress")]
                          ELSE helpers[h]]

\* A deploy that assigns the address whether or not the client's deploy
\* returned: after a failure there is no deployment, and the address is
\* undefined.
HelperResumeAlways(i) ==
    /\ hcalls' = [k \in DOMAIN hcalls |->
                     IF k \in Awaiting(i)
                         THEN [hcalls[k] EXCEPT
                                  !.promise = HelperReturn(hcalls[k].method,
                                                           calls'[i]).promise,
                                  !.result = HelperReturn(hcalls[k].method,
                                                          calls'[i]).result]
                         ELSE hcalls[k]]
    /\ helpers' = [h \in DOMAIN helpers |->
                      IF \E k \in Awaiting(i) :
                             /\ hcalls[k].helper = h
                             /\ hcalls[k].method = "deploy"
                          THEN [helpers[h] EXCEPT !.contractAddress =
                                   Get(calls'[i].result, "contractAddress")]
                          ELSE helpers[h]]

\* Client call i has settled: the helper method awaiting it runs to its end.
\* this.contractAddress = deployment.contractAddress, after a deploy.
HelperResume(i) ==
    /\ hcalls' = [k \in DOMAIN hcalls |->
                     IF k \in Awaiting(i)
                         THEN [hcalls[k] EXCEPT
                                  !.promise = HelperReturn(hcalls[k].method,
                                                           calls'[i]).promise,
                                  !.result = HelperReturn(hcalls[k].method,
                                                          calls'[i]).result]
                         ELSE hcalls[k]]
    /\ helpers' = [h \in DOMAIN helpers |->
                      IF \E k \in Awaiting(i) :
                             /\ hcalls[k].helper = h
                             /\ hcalls[k].method = "deploy"
                             /\ calls'[i].promise = "fulfilled"
                          THEN [helpers[h] EXCEPT !.contractAddress =
                                   Get(calls'[i].result, "contractAddress")]
                          ELSE helpers[h]]

(***************************************************************************)
(* The transport settles a pending request, and the awaiting operation     *)
(* runs to its end.                                                        *)
(***************************************************************************)
\* The continuation of the operation that awaits.
Continuation(op, response) ==
    CASE op = "deployContract" -> DeployContractSettled(response)
      [] op = "queryContract" -> QueryContractSettled(response)
      [] op = "executeTransaction" -> ExecuteTransactionSettled(response)
      [] op = "getTransactionReceipt" -> GetTransactionReceiptSettled(response)
      [] op = "getBalance" -> GetBalanceSettled(response)
      [] op = "estimateGas" -> EstimateGasSettled(response)

\* A client with a cache: a call returns what the last completed call of
\* the same operation returned, if there is one.
SettleCached(i, response) ==
    LET earlier == {j \in DOMAIN calls : /\ calls[j].op = calls[i].op
                                         /\ calls[j].promise = "fulfilled"}
        fresh == Continuation(calls[i].op, response)
        made == IF earlier = {}
                    THEN fresh
                    ELSE Fulfil(calls[CHOOSE j \in earlier : TRUE].result)
    IN  /\ i \in DOMAIN calls
        /\ calls[i].promise = "pending"
        /\ calls' = [calls EXCEPT ![i] =
                        [op |-> @.op, promise |-> made.promise,
                         result |-> made.result, response |-> response]]
        /\ HelperResume(i)
        /\ UNCHANGED <<config, requests, applied>>

\* A client that queues its calls: a call completes only once every call
\* made before it has.
SettleInOrder(i, response) ==
    /\ i \in DOMAIN calls
    /\ calls[i].promise = "pending"
    /\ \A j \in 1..(i - 1) : calls[j].promise # "pending"
    /\ calls' = [calls EXCEPT ![i] =
                    [op |-> @.op,
                     promise |-> Continuation(@.op, response).promise,
                     result |-> Continuation(@.op, response).result,
                     response |-> response]]
    /\ HelperResume(i)
    /\ UNCHANGED <<config, requests, applied>>

Settle(i, response) ==
    /\ i \in DOMAIN calls
    /\ calls[i].promise = "pending"
    /\ calls' = [calls EXCEPT ![i] =
                    [op |-> @.op,
                     promise |-> Continuation(@.op, response).promise,
                     result |-> Continuation(@.op, response).result,
                     response |-> response]]
    /\ HelperResume(i)
    /\ UNCHANGED <<config, requests, applied>>

\* The remote service applies a write it received.
RemoteApply(i) ==
    /\ calls[i].promise = "pending"
    /\ calls[i].op \in WriteOps
    /\ i \notin applied
    /\ applied' = applied \cup {i}
    /\ UNCHANGED <<config, calls, requests, helpers, hcalls>>

\* A 2xx response: for a write, the remote service has applied it.
Respond(i, data) ==
    /\ calls[i].op \in WriteOps => i \in applied
    /\ Settle(i, OkResponse(data))

\* A response with an error status.
RespondError(i, message) == Settle(i, ErrorResponse(message))

\* A client that resubmits: the first timeout of a request sends it again.
TimeoutRetry(i) ==
    IF i \in DOMAIN calls /\ calls[i].promise = "pending"
           /\ Len(SelectSeq(requests, LAMBDA r : r.call = i)) = 1
        THEN /\ requests' = requests
                     \o SelectSeq(requests, LAMBDA r : r.call = i)
             /\ UNCHANGED <<config, calls, applied, helpers, hcalls>>
        ELSE Settle(i, ErrorResponse(TimeoutMessage))

\* timeout: 0, axios' default: no timeout.
TimeoutNever(i) == FALSE /\ UNCHANGED vars

\* timeout: 30000 passes with no response.
Timeout(i) == Settle(i, ErrorResponse(TimeoutMessage))

Next ==
    \/ \E c \in Codes, a \in DeployArgs : DeployContract(c, a)
    \/ \E a \in Addresses, args \in QueryArgs :
           QueryContract(a, Str("balanceOf"), args)
    \/ \E a \in Contracts, args \in ExecuteArgs, v \in ExecuteValues :
           ExecuteTransaction(a, Str("transfer"), args, v)
    \/ \E h \in TxHashes : GetTransactionReceipt(h)
    \/ \E a \in Accounts : GetBalance(a)
    \/ \E a \in Contracts, args \in EstimateArgs :
           EstimateGas(a, Str("transfer"), args)
    \/ \E i \in 1..Len(calls) : RemoteApply(i)
    \/ \E i \in 1..Len(calls) : \E d \in ResponseBodies(calls[i].op) :
           Respond(i, d)
    \/ \E i \in 1..Len(calls), m \in StatusMessages : RespondError(i, m)
    \/ \E i \in 1..Len(calls) : Timeout(i)

Spec == Init /\ [][Next]_vars

(***************************************************************************)
(* The specification of the liveness claims.  Whether a call completes     *)
(* does not depend on the values passed or received, so fewer are drawn:   *)
(* one chain, one value per parameter, and two bodies of a 2xx response    *)
(* (null, and an object).  The timer axios sets for a request fires unless *)
(* the request is settled before: a request that stays pending is          *)
(* eventually timed out.  Nothing is assumed of the remote service or of   *)
(* the caller.                                                             *)
(***************************************************************************)
LiveBodies == {Null, Obj([status |-> Str("success")])}

LiveInit == Init /\ config.chainId = Str("agefix-mainnet-1")

LiveNext ==
    \/ DeployContract(Str("contract Token {}"), Undefined)
    \/ QueryContract(Str("0xabc"), Str("balanceOf"), Undefined)
    \/ ExecuteTransaction(Str("0xabc"), Str("transfer"), Undefined, Undefined)
    \/ GetTransactionReceipt(Str("0x1"))
    \/ GetBalance(Str("0xdef"))
    \/ EstimateGas(Str("0xabc"), Str("transfer"), Undefined)
    \/ \E i \in 1..Len(calls) : RemoteApply(i)
    \/ \E i \in 1..Len(calls), d \in LiveBodies : Respond(i, d)
    \/ \E i \in 1..Len(calls), m \in StatusMessages : RespondError(i, m)
    \/ \E i \in 1..Len(calls) : Timeout(i)

LiveSpec ==
    /\ LiveInit
    /\ [][LiveNext]_vars
    /\ \A i \in 1..MaxCalls : WF_vars(Timeout(i))

(***************************************************************************)
(* The specification of a caller that awaits: `await client.execute...`    *)
(* suspends the caller until the promise the call returned is settled, so  *)
(* the caller makes its next call only when none of its calls is pending.  *)
(***************************************************************************)
CallerResumed == \A i \in DOMAIN calls : calls[i].promise # "pending"

AwaitNext ==
    \/ \E a \in Contracts, args \in ExecuteArgs, v \in ExecuteValues :
           CallerResumed /\ ExecuteTransaction(a, Str("transfer"), args, v)
    \/ \E i \in 1..Len(calls) : RemoteApply(i)
    \/ \E i \in 1..Len(calls) : \E d \in ResponseBodies(calls[i].op) :
           Respond(i, d)
    \/ \E i \in 1..Len(calls), m \in StatusMessages : RespondError(i, m)
    \/ \E i \in 1..Len(calls) : Timeout(i)

AwaitSpec == Init /\ [][AwaitNext]_vars

(***************************************************************************)
(* The specification of the helper claims: a client and one helper of each *)
(* class, constructed with or without an address, and a caller that calls  *)
(* the helpers' methods.                                                   *)
(***************************************************************************)
GivenAddresses == {Undefined, Str("0xabc")}

HelperInit ==
    /\ config \in {c \in Configs : c.chainId = Str("agefix-mainnet-1")}
    /\ calls = <<>>
    /\ requests = <<>>
    /\ applied = {}
    /\ helpers \in [HelperNames -> {Helper(a) : a \in GivenAddresses}]
    /\ hcalls = <<>>

\* The caller makes another helper call.
MayCallHelper == Len(hcalls) < MaxHelperCalls

HelperNext ==
    \/ MayCallHelper /\ TokenDeploy(Str("MyToken"), Str("MTK"), Str("1000000"))
    \/ MayCallHelper /\ TokenBalanceOf(Str("0xdef"))
    \/ MayCallHelper /\ TokenTransfer(Str("0xdef"), Str("100"))
    \/ MayCallHelper /\ TokenApprove(Str("0xdef"), Str("100"))
    \/ MayCallHelper /\ NFTDeploy(Str("MyNFT"), Str("MNFT"))
    \/ MayCallHelper /\ NFTMint(Str("0xdef"), Str("ipfs://1"))
    \/ MayCallHelper /\ NFTOwnerOf(Num("1"))
    \/ \E i \in 1..Len(calls) : RemoteApply(i)
    \/ \E i \in 1..Len(calls) : \E d \in ResponseBodies(calls[i].op) :
           Respond(i, d)
    \/ \E i \in 1..Len(calls), m \in StatusMessages : RespondError(i, m)
    \/ \E i \in 1..Len(calls) : Timeout(i)

HelperSpec == HelperInit /\ [][HelperNext]_vars

(***************************************************************************)
(* What the claims speak of.                                               *)
(***************************************************************************)
Issued == DOMAIN calls

\* The requests the client issued for call i.
RequestsOf(i) == SelectSeq(requests, LAMBDA r : r.call = i)

Invoked(op) == {i \in Issued : calls[i].op = op}

Settled(i) == calls[i].promise # "pending"

MissingCredentialError == Err("Private key required for transactions")

NoCredential == config.privateKey = Undefined

(***************************************************************************)
(* C1: on a client configured without a credential every execute call      *)
(* fails with the missing-credential error, and the client has issued no   *)
(* network request for it.                                                 *)
(***************************************************************************)
C1_ExecuteWithoutCredential ==
    NoCredential =>
        \A i \in Invoked("executeTransaction") :
            /\ calls[i].promise = "rejected"
            /\ calls[i].result = MissingCredentialError
            /\ calls[i].response = NoResponse
            /\ RequestsOf(i) = <<>>
            /\ \A k \in DOMAIN requests : requests[k].url # "/execute"

\* Two execute calls were made on a client without a credential.
C1_Witness ==
    /\ NoCredential
    /\ Cardinality(Invoked("executeTransaction")) = MaxCalls

(***************************************************************************)
(* C2: on a client configured without a credential every deploy call fails *)
(* with the missing-credential error and issues no network request: no     *)
(* request to /deploy is observed.                                         *)
(***************************************************************************)
C2_DeployWithoutCredential ==
    NoCredential =>
        /\ \A i \in Invoked("deployContract") :
               /\ calls[i].promise = "rejected"
               /\ calls[i].result = MissingCredentialError
               /\ RequestsOf(i) = <<>>
        /\ \A k \in DOMAIN requests : requests[k].url # "/deploy"

(***************************************************************************)
(* C3: a query call never raises; once the transport has settled its       *)
(* request it has returned a QueryResult.  As claimed, the success flag is *)
(* true exactly when the transport returned a successful response.         *)
(***************************************************************************)
IsQueryResult(x) ==
    /\ x.t = "object"
    /\ {"success", "data"} \subseteq DOMAIN x.f
    /\ DOMAIN x.f \subseteq {"success", "data", "error"}
    /\ x.f.success \in {Bool(TRUE), Bool(FALSE)}

C3_QuerySuccessIffResponse ==
    \A i \in Invoked("queryContract") :
        /\ calls[i].promise # "rejected"
        /\ Settled(i) =>
               /\ IsQueryResult(calls[i].result)
               /\ calls[i].result.f.success = Bool(TRUE)
                      <=> calls[i].response.kind = "ok"

(***************************************************************************)
(* C3 as amended: a query call never raises; once the transport has        *)
(* settled its request it has returned a QueryResult whose success flag is *)
(* true exactly when the transport returned a successful response with a   *)
(* body that is not null.                                                  *)
(***************************************************************************)
C3_QueryNeverRaises ==
    \A i \in Invoked("queryContract") :
        /\ calls[i].promise # "rejected"
        /\ calls[i].promise = "pending" <=> calls[i].response = NoResponse
        /\ Settled(i) =>
               /\ IsQueryResult(calls[i].result)
               /\ calls[i].result.f.success = Bool(TRUE)
                      <=> /\ calls[i].response.kind = "ok"
                          /\ calls[i].response.data # Null

\* Two queries have returned: one after a successful response, one after a
\* failed transport attempt.
C3_Witness ==
    \E i, j \in Invoked("queryContract") :
        /\ calls[i].promise = "fulfilled"
        /\ calls[i].response.kind = "ok"
        /\ calls[j].promise = "fulfilled"
        /\ calls[j].response.kind = "error"

(***************************************************************************)
(* C4: a query whose transport attempt fails returns exactly               *)
(* {success: false, data: null, error: <the transport's message>}; a query *)
(* whose transport attempt succeeds returns success: true, the remote      *)
(* result as data, and no error field.                                     *)
(***************************************************************************)
C4_QueryResultShape ==
    \A i \in Invoked("queryContract") :
        /\ calls[i].response.kind = "error" =>
               calls[i].result =
                   Obj([success |-> Bool(FALSE), data |-> Null,
                        error |-> Str(calls[i].response.message)])
        /\ calls[i].response.kind = "ok" =>
               /\ calls[i].result.t = "object"
               /\ DOMAIN calls[i].result.f = {"success", "data"}
               /\ calls[i].result.f.success = Bool(TRUE)
               /\ calls[i].result.f.data = Get(calls[i].response.data, "result")

(***************************************************************************)
(* C4 as amended: a query whose transport attempt fails returns exactly    *)
(* {success: false, data: null, error: <the transport's message>}; a query *)
(* whose transport attempt succeeds with a body that is not null returns   *)
(* success: true, the body's result as data, and no error field; a query   *)
(* answered with a null body returns {success: false, data: null, error:   *)
(* <the message of the TypeError>}.                                        *)
(***************************************************************************)
C4_QueryResultShapeNonNull ==
    \A i \in Invoked("queryContract") :
        /\ calls[i].response.kind = "error" =>
               calls[i].result =
                   Obj([success |-> Bool(FALSE), data |-> Null,
                        error |-> Str(calls[i].response.message)])
        /\ calls[i].response.kind = "ok" /\ calls[i].response.data # Null =>
               /\ calls[i].result.t = "object"
               /\ DOMAIN calls[i].result.f = {"success", "data"}
               /\ calls[i].result.f.success = Bool(TRUE)
               /\ calls[i].result.f.data = calls[i].response.data.f.result
        /\ calls[i].response.kind = "ok" /\ calls[i].response.data = Null =>
               calls[i].result =
                   Obj([success |-> Bool(FALSE), data |-> Null,
                        error |-> Str("Cannot read properties of null (reading 'result')")])

\* One query was answered with a result, another with an error.
C4_Witness ==
    \E i, j \in Invoked("queryContract") :
        /\ calls[i].response = OkResponse(Obj([result |-> Str("100")]))
        /\ calls[j].response.kind = "error"
        /\ calls[j].response.message = TimeoutMessage

(***************************************************************************)
(* C5: a read operation (query, getBalance, estimateGas, getReceipt) never *)
(* requires a credential.  Whatever the configured credential, a read call *)
(* issues its one network request, stays pending until the transport       *)
(* settles it, and then has the outcome ReadOutcome gives for the          *)
(* operation and the transport's answer alone: the configuration is no     *)
(* part of it, so the outcome is the same with and without a credential.   *)
(***************************************************************************)
ReadField(op) ==
    CASE op = "queryContract" -> "result"
      [] op = "getBalance" -> "balance"
      [] op = "estimateGas" -> "gasEstimate"
      [] op = "getTransactionReceipt" -> "none"

ReadPrefix(op) ==
    CASE op = "getBalance" -> "Failed to get balance: "
      [] op = "estimateGas" -> "Failed to estimate gas: "
      [] op = "getTransactionReceipt" -> "Failed to get transaction receipt: "
      [] op = "queryContract" -> ""

\* The message a failed read reports: the transport's, or that of reading a
\* field of a null body.
ReadFailure(op, response) ==
    IF response.kind = "error"
        THEN response.message
        ELSE "Cannot read properties of null (reading '" \o ReadField(op) \o "')"

ReadSucceeds(op, response) ==
    /\ response.kind = "ok"
    /\ op = "getTransactionReceipt" \/ response.data # Null

ReadOutcome(op, response) ==
    CASE ReadSucceeds(op, response) /\ op = "getTransactionReceipt" ->
           <<"fulfilled", response.data>>
      [] ReadSucceeds(op, response) /\ op = "queryContract" ->
           <<"fulfilled", Obj([success |-> Bool(TRUE),
                               data |-> response.data.f.result])>>
      [] ReadSucceeds(op, response) /\ op \in {"getBalance", "estimateGas"} ->
           <<"fulfilled", response.data.f[ReadField(op)]>>
      [] ~ReadSucceeds(op, response) /\ op = "queryContract" ->
           <<"fulfilled", Obj([success |-> Bool(FALSE), data |-> Null,
                               error |-> Str(ReadFailure(op, response))])>>
      [] OTHER ->
           <<"rejected", Err(ReadPrefix(op) \o ReadFailure(op, response))>>

C5_ReadsNeedNoCredential ==
    \A i \in Issued :
        calls[i].op \in ReadOps =>
            /\ Len(RequestsOf(i)) = 1
            /\ calls[i].promise = "pending" <=> calls[i].response = NoResponse
            /\ Settled(i) =>
                   <<calls[i].promise, calls[i].result>>
                       = ReadOutcome(calls[i].op, calls[i].response)

\* On a client without a credential a balance lookup has returned the
\* remote's balance and another read is under way or done.
C5_Witness ==
    /\ NoCredential
    /\ \E i \in Invoked("getBalance") :
           /\ calls[i].promise = "fulfilled"
           /\ calls[i].result = Str("1000")
    /\ \E j \in Issued : calls[j].op \in ReadOps \ {"getBalance"}

(***************************************************************************)
(* C6: every TransactionResult that execute returns carries success: true, *)
(* whatever the remote's successful response holds, a false success flag   *)
(* of its own included; no returned TransactionResult has success: false.  *)
(***************************************************************************)
C6_ExecuteResultSuccessTrue ==
    \A i \in Invoked("executeTransaction") :
        calls[i].promise = "fulfilled" =>
            /\ calls[i].result.t = "object"
            /\ DOMAIN calls[i].result.f
                   = {"txHash", "blockNumber", "gasUsed", "success"}
            /\ calls[i].result.f.success = Bool(TRUE)

\* execute has returned after a response that reports success: false.
C6_Witness ==
    \E i \in Invoked("executeTransaction") :
        /\ calls[i].promise = "fulfilled"
        /\ calls[i].response.kind = "ok"
        /\ Get(calls[i].response.data, "success") = Bool(FALSE)

(***************************************************************************)
(* C7: a write whose transport attempt fails raises: execute (on a client  *)
(* with a credential) raises the execution error wrapping the transport's  *)
(* message, deploy raises the deployment error wrapping it, and neither    *)
(* returns a result.  No write whose request the transport settled without *)
(* a usable response has returned.                                         *)
(***************************************************************************)
C7_WriteFailuresRaise ==
    /\ \A i \in Invoked("executeTransaction") :
           calls[i].response.kind = "error" =>
               /\ calls[i].promise = "rejected"
               /\ calls[i].result =
                      Err("Transaction execution failed: "
                          \o calls[i].response.message)
    /\ \A i \in Invoked("deployContract") :
           calls[i].response.kind = "error" =>
               /\ calls[i].promise = "rejected"
               /\ calls[i].result =
                      Err("Contract deployment failed: "
                          \o calls[i].response.message)
    /\ \A i \in Issued :
           calls[i].op \in WriteOps /\ calls[i].promise = "fulfilled" =>
               calls[i].response.kind = "ok"

\* An execute and a deploy have both failed in the transport.
C7_Witness ==
    /\ Truthy(config.privateKey)
    /\ \E i \in Invoked("executeTransaction") :
           calls[i].response = ErrorResponse(TimeoutMessage)
    /\ \E j \in Invoked("deployContract") :
           calls[j].response.kind = "error"

(***************************************************************************)
(* C8: single attempt per call.  Each invocation of one of the six         *)
(* operations has issued at most one network request, whatever the         *)
(* transport did with it: exactly one when its local precondition holds,   *)
(* none when it fails.  The local precondition of a write (execute,        *)
(* deploy) is a configured credential; a read has none.                    *)
(***************************************************************************)
LocalPreconditionFails(i) ==
    /\ calls[i].op \in WriteOps
    /\ ~Truthy(config.privateKey)

C8_SingleAttempt ==
    \A i \in Issued :
        /\ Len(RequestsOf(i)) <= 1
        /\ LocalPreconditionFails(i) => Len(RequestsOf(i)) = 0
        /\ ~LocalPreconditionFails(i) => Len(RequestsOf(i)) = 1

\* The part of C8 the client keeps: no call has issued a second request, and
\* every request belongs to a call.
AtMostOneRequestPerCall ==
    /\ \A i \in Issued : Len(RequestsOf(i)) <= 1
    /\ \A k \in DOMAIN requests : requests[k].call \in Issued
    /\ Len(requests) <= Len(calls)

(***************************************************************************)
(* C9: the lifecycle of a write (deploy or execute).  A step takes a write *)
(* only from Unsent to Submitted, from Submitted to Confirmed, from Unsent *)
(* to Failed or from Submitted to Failed, so Confirmed and Failed are      *)
(* terminal.  A result is held by the caller only in Confirmed, which is   *)
(* after the remote applied the write and its successful response to this  *)
(* call's request arrived; while the write is Submitted the caller holds   *)
(* nothing, and a Failed write holds an error, never a result.             *)
(***************************************************************************)
Lifecycle(i) ==
    IF i \notin DOMAIN calls THEN "Unsent"
    ELSE CASE calls[i].promise = "pending" -> "Submitted"
           [] calls[i].promise = "fulfilled" -> "Confirmed"
           [] calls[i].promise = "rejected" -> "Failed"

LifecycleSteps ==
    { <<"Unsent", "Submitted">>, <<"Submitted", "Confirmed">>,
      <<"Unsent", "Failed">>, <<"Submitted", "Failed">> }

WriteStep(i) ==
    (i \in DOMAIN calls' /\ calls'[i].op \in WriteOps) =>
        \/ Lifecycle(i)' = Lifecycle(i)
        \/ <<Lifecycle(i), Lifecycle(i)'>> \in LifecycleSteps

WriteHolds(i) ==
    calls[i].op \in WriteOps =>
        /\ Lifecycle(i) = "Submitted" =>
               /\ calls[i].result = Undefined
               /\ calls[i].response = NoResponse
               /\ Len(RequestsOf(i)) = 1
        /\ Lifecycle(i) = "Confirmed" =>
               /\ calls[i].response.kind = "ok"
               /\ i \in applied
               /\ calls[i].result.t = "object"
        /\ Lifecycle(i) = "Failed" => calls[i].result.t = "error"

C9_WriteLifecycle ==
    /\ [][\A i \in 1..MaxCalls : WriteStep(i)]_vars
    /\ [](\A i \in Issued : WriteHolds(i))

\* Every lifecycle state is taken: one write is Confirmed, another Failed
\* after it was Submitted.
C9_Witness ==
    \E i, j \in Issued :
        /\ calls[i].op = "executeTransaction"
        /\ Lifecycle(i) = "Confirmed"
        /\ calls[j].op \in WriteOps
        /\ Lifecycle(j) = "Failed"
        /\ calls[j].response.kind = "error"

(***************************************************************************)
(* C10: every client call eventually completes, given that the transport's *)
(* timeout fires on a request that stays unanswered (LiveSpec): a call     *)
(* that was made is eventually fulfilled or rejected, and a write whose    *)
(* request was settled by the timeout is Failed.                           *)
(***************************************************************************)
Completed(i) == i \in DOMAIN calls /\ calls[i].promise # "pending"

TimedOut(i) == calls[i].response = ErrorResponse(TimeoutMessage)

C10_EveryCallCompletes ==
    /\ \A i \in 1..MaxCalls : (i \in DOMAIN calls) ~> Completed(i)
    /\ [](\A i \in Issued :
              (calls[i].op \in WriteOps /\ TimedOut(i)) =>
                  Lifecycle(i) = "Failed")

\* A write was Submitted and the timeout has failed it, with no response
\* from the remote, which applied it or not.
C10_Witness ==
    \E i \in Issued :
        /\ calls[i].op \in WriteOps
        /\ TimedOut(i)
        /\ calls[i].promise = "rejected"

(***************************************************************************)
(* The specification of absent values: a client with the empty string for *)
(* credential, helpers constructed without an address or with the empty    *)
(* string for one, and a caller that calls execute on the client and the   *)
(* methods of the helpers.                                                 *)
(***************************************************************************)
EmptyInit ==
    /\ config \in {c \in Configs : /\ c.chainId = Str("agefix-mainnet-1")
                                   /\ c.privateKey = Str("")}
    /\ calls = <<>>
    /\ requests = <<>>
    /\ applied = {}
    /\ helpers \in [HelperNames -> {Helper(Undefined), Helper(Str(""))}]
    /\ hcalls = <<>>

EmptyNext ==
    \/ \E a \in Contracts, args \in ExecuteArgs :
           ExecuteTransaction(a, Str("transfer"), args, Undefined)
    \/ HelperNext

EmptySpec == EmptyInit /\ [][EmptyNext]_vars

(***************************************************************************)
(* The specification of repeated deploys: a client with a credential, a    *)
(* token helper constructed without an address or with one, and a caller   *)
(* that calls deploy and balanceOf without awaiting.                       *)
(***************************************************************************)
RedeployInit ==
    /\ config = [rpcUrl |-> "https://rpc.agefix.com",
                 chainId |-> Str("agefix-mainnet-1"),
                 privateKey |-> Str("k1")]
    /\ calls = <<>>
    /\ requests = <<>>
    /\ applied = {}
    /\ helpers \in [HelperNames -> {Helper(a) : a \in GivenAddresses}]
    /\ helpers["nft"] = Helper(Undefined)
    /\ hcalls = <<>>

MayRedeploy == Len(hcalls) < MaxRedeployCalls

RedeployNext ==
    \/ MayRedeploy /\ TokenDeploy(Str("MyToken"), Str("MTK"), Str("1000000"))
    \/ MayRedeploy /\ TokenBalanceOf(Str("0xdef"))
    \/ \E i \in 1..Len(calls) : RemoteApply(i)
    \/ \E i \in 1..Len(calls) : \E d \in ResponseBodies(calls[i].op) :
           Respond(i, d)
    \/ \E i \in 1..Len(calls) : Timeout(i)

RedeploySpec == RedeployInit /\ [][RedeployNext]_vars

(***************************************************************************)
(* What the helper claims speak of.                                        *)
(***************************************************************************)
HelperMethods == {"transfer", "approve", "balanceOf", "mint", "ownerOf"}

NotDeployedError == Err("Contract not deployed")

\* The deploys of helper h that have returned a deployment.
DeploysDone(h) ==
    {k \in DOMAIN hcalls : /\ hcalls[k].helper = h
                           /\ hcalls[k].method = "deploy"
                           /\ hcalls[k].promise = "fulfilled"}

\* No address was passed at construction and no deploy has succeeded.
NoAddressKnown(h) ==
    helpers[h].given = Undefined /\ DeploysDone(h) = {}

\* This step is the invocation of a helper method: the last of hcalls'.
HelperInvoked == Len(hcalls') = Len(hcalls) + 1

(***************************************************************************)
(* C11: every helper method (TokenHelper transfer, approve, balanceOf;     *)
(* NFTHelper mint, ownerOf) invoked while the helper has no known address  *)
(* (none passed at construction, no deploy has succeeded) fails with the   *)
(* not-deployed error, and the step issues no client call and no network   *)
(* request; a call that failed so never has a request.                     *)
(***************************************************************************)
NotDeployedStep ==
    HelperInvoked =>
        LET new == hcalls'[Len(hcalls')]
        IN  (new.method \in HelperMethods /\ NoAddressKnown(new.helper)) =>
                /\ new.promise = "rejected"
                /\ new.result = NotDeployedError
                /\ new.inner = 0
                /\ requests' = requests
                /\ calls' = calls

C11_NotDeployedFailsLocally ==
    /\ [][NotDeployedStep]_vars
    /\ [](\A k \in DOMAIN hcalls :
              hcalls[k].result = NotDeployedError =>
                  /\ hcalls[k].promise = "rejected"
                  /\ hcalls[k].inner = 0)

\* A method of each helper was called with no address known, and the
\* transport has seen nothing.
C11_Witness ==
    /\ \A h \in HelperNames : NoAddressKnown(h)
    /\ \E k, l \in DOMAIN hcalls :
           /\ hcalls[k].helper = "token"
           /\ hcalls[k].method \in HelperMethods
           /\ hcalls[l].helper = "nft"
           /\ hcalls[l].method \in HelperMethods
    /\ requests = <<>>

(***************************************************************************)
(* C12: round trip on the address.  The address a helper holds changes     *)
(* only when a deploy of that helper succeeds, and then to the contract    *)
(* address of the deployment returned; a helper that has not deployed      *)
(* holds the address it was constructed with.  Every request a helper      *)
(* method sends has contractAddress equal to the address the helper holds: *)
(* that of the last successful deploy, or the one given at construction.   *)
(***************************************************************************)
\* The deploys of h that this step completes with a deployment.
DeployCompletes(h) ==
    {k \in DOMAIN hcalls : /\ hcalls[k].helper = h
                           /\ hcalls[k].method = "deploy"
                           /\ hcalls[k].promise = "pending"
                           /\ hcalls'[k].promise = "fulfilled"}

AddressStep ==
    /\ \A h \in DOMAIN helpers :
           /\ \A k \in DeployCompletes(h) :
                  helpers'[h].contractAddress
                      = hcalls'[k].result.f.contractAddress
           /\ DeployCompletes(h) = {} =>
                  helpers'[h].contractAddress = helpers[h].contractAddress
    /\ HelperInvoked =>
           LET new == hcalls'[Len(hcalls')]
           IN  (new.method \in HelperMethods /\ requests' # requests) =>
                   /\ Len(requests') = Len(requests) + 1
                   /\ requests'[Len(requests')].call = new.inner
                   /\ requests'[Len(requests')].body.contractAddress
                          = helpers[new.helper].contractAddress
                   /\ Truthy(helpers[new.helper].contractAddress)

C12_AddressRoundTrip ==
    /\ [][AddressStep]_vars
    /\ [](\A h \in DOMAIN helpers :
              DeploysDone(h) = {} =>
                  helpers[h].contractAddress = helpers[h].given)

\* The token helper deployed at 0xdef, an address it was not constructed
\* with, and a later method of it sent its request to 0xdef.
C12_Witness ==
    /\ \E k \in DeploysDone("token") :
           hcalls[k].result.f.contractAddress = Str("0xdef")
    /\ \E l \in DOMAIN hcalls :
           /\ hcalls[l].helper = "token"
           /\ hcalls[l].method \in HelperMethods
           /\ hcalls[l].inner # 0
           /\ \E r \in DOMAIN requests :
                  /\ requests[r].call = hcalls[l].inner
                  /\ requests[r].body.contractAddress = Str("0xdef")

(***************************************************************************)
(* C13: each write request (to /deploy, /execute) carries the configured   *)
(* chainId and the configured credential; each read request (to /query,    *)
(* /estimateGas) carries the chainId and no credential; no request issued  *)
(* by a read operation (query, estimateGas, getBalance, getReceipt) holds  *)
(* the credential, in a field of its own or as the value of another, for   *)
(* every configuration and every sequence of calls.                        *)
(***************************************************************************)
WriteUrls == {"/deploy", "/execute"}

ReadUrls == {"/query", "/estimateGas"}

\* The values a request sends: those of its body, if it has one.
SentValues(q) ==
    IF "body" \in DOMAIN q THEN {q.body[f] : f \in DOMAIN q.body} ELSE {}

CarriesCredential(q) ==
    \/ "body" \in DOMAIN q /\ "privateKey" \in DOMAIN q.body
    \/ Truthy(config.privateKey) /\ config.privateKey \in SentValues(q)

C13_CredentialOnWritesOnly ==
    \A r \in DOMAIN requests :
        LET q == requests[r]
            op == calls[q.call].op
        IN  /\ op \in WriteOps =>
                /\ q.url \in WriteUrls
                /\ q.body.chainId = config.chainId
                /\ q.body.privateKey = config.privateKey
            /\ op \in {"queryContract", "estimateGas"} =>
                /\ q.url \in ReadUrls
                /\ q.body.chainId = config.chainId
            /\ op \in {"getBalance", "getTransactionReceipt"} =>
                /\ q.verb = "GET"
                /\ "body" \notin DOMAIN q
            /\ op \in ReadOps => ~CarriesCredential(q)

\* A client with a credential has sent a write with it and a read of each
\* kind of request body.
C13_Witness ==
    /\ config.privateKey = Str("k1")
    /\ \E r, s \in DOMAIN requests :
           /\ requests[r].url \in WriteUrls
           /\ requests[r].body.privateKey = Str("k1")
           /\ requests[s].url \in ReadUrls

(***************************************************************************)
(* C14: the configuration (endpoint, chain identifier, credential) is      *)
(* immutable after construction.  No step of an operation, successful or   *)
(* failed, changes it, and so every request carries the chainId, and every *)
(* write request the credential, of the configuration the client was       *)
(* constructed with.                                                       *)
(***************************************************************************)
C14_ConfigImmutable ==
    /\ [][config' = config]_vars
    /\ [](\A r \in DOMAIN requests :
              "body" \in DOMAIN requests[r] =>
                  /\ requests[r].body.chainId = config.chainId
                  /\ requests[r].url \in WriteUrls =>
                         requests[r].body.privateKey = config.privateKey)

\* A client constructed for the test chain has had one operation succeed
\* and one fail, and a request of it carries the test chain.
C14_Witness ==
    /\ config.chainId = Str("agefix-testnet-1")
    /\ \E i, j \in Issued :
           /\ calls[i].promise = "fulfilled"
           /\ calls[j].promise = "rejected"
    /\ \E r \in DOMAIN requests :
           /\ "body" \in DOMAIN requests[r]
           /\ requests[r].body.chainId = Str("agefix-testnet-1")

(***************************************************************************)
(* The messages of the failures the operations raise.                      *)
(***************************************************************************)
OperationPrefix(op) ==
    CASE op = "deployContract" -> "Contract deployment failed: "
      [] op = "executeTransaction" -> "Transaction execution failed: "
      [] OTHER -> ReadPrefix(op)

\* The first property the operation reads of the response body.
FirstField(op) ==
    CASE op = "deployContract" -> "contractAddress"
      [] op = "executeTransaction" -> "txHash"
      [] OTHER -> ReadField(op)

\* What made the operation fail: the transport's error, or the TypeError of
\* reading a property of a 2xx response's null body.
OriginalCause(op, response) ==
    IF response.kind = "error"
        THEN response.message
        ELSE TypeErrorMessage(Null, FirstField(op))

Raised == {i \in Issued : calls[i].promise = "rejected"}

(***************************************************************************)
(* C15 as stated: every failure an operation raises carries the            *)
(* operation's prefix followed by the original cause, the                  *)
(* missing-credential failure included.                                    *)
(***************************************************************************)
C15_EveryFailurePrefixed ==
    \A i \in Raised :
        \E cause \in {MissingCredentialError.v,
                      OriginalCause(calls[i].op, calls[i].response)} :
            calls[i].result = Err(OperationPrefix(calls[i].op) \o cause)

(***************************************************************************)
(* C15, amended: every failure raised after the transport was tried        *)
(* carries the operation's prefix followed by the original cause: for      *)
(* deploy, execute, getReceipt, getBalance and estimateGas whose transport *)
(* attempt failed, the prefix plus the transport's error message verbatim, *)
(* and for a 2xx response with a null body the prefix plus the TypeError's *)
(* message.  The missing-credential failure, raised before the transport   *)
(* is tried, carries the fixed message 'Private key required for           *)
(* transactions' with no prefix.                                           *)
(***************************************************************************)
C15_FailureMessages ==
    /\ \A i \in Raised :
           IF calls[i].response = NoResponse
               THEN /\ calls[i].op = "executeTransaction"
                    /\ calls[i].result = MissingCredentialError
               ELSE calls[i].result =
                        Err(OperationPrefix(calls[i].op)
                            \o OriginalCause(calls[i].op, calls[i].response))
    /\ \A i \in Issued :
           (calls[i].response.kind = "error"
               /\ calls[i].op # "queryContract") =>
               /\ i \in Raised
               /\ calls[i].result =
                      Err(OperationPrefix(calls[i].op)
                          \o calls[i].response.message)

\* One call failed for want of a credential and another in the transport.
C15_Witness ==
    \E i, j \in Raised :
        /\ calls[i].result = MissingCredentialError
        /\ calls[j].response.kind = "error"

(***************************************************************************)
(* Failures as raised errors and as return values.                         *)
(***************************************************************************)
RaisingReads == {"getTransactionReceipt", "getBalance", "estimateGas"}

\* What the remote answered, as the operation is to hand it on: the body
\* for a receipt, the body's balance and gasEstimate for the other two.
RemoteValue(op, response) ==
    IF op = "getTransactionReceipt"
        THEN response.data
        ELSE Get(response.data, ReadField(op))

RaisedBy(op, response) ==
    Err(OperationPrefix(op) \o OriginalCause(op, response))

\* A raising read fails when the transport does, and never returns then.
RaisesOnTransportFailure ==
    \A i \in Issued :
        (calls[i].op \in RaisingReads /\ calls[i].response.kind = "error") =>
            /\ calls[i].promise = "rejected"
            /\ calls[i].result = RaisedBy(calls[i].op, calls[i].response)

\* Of all operations only query hands a failure back as its value.
OnlyQueryReturnsFailure ==
    \A i \in Issued :
        /\ (calls[i].op # "queryContract" /\ calls[i].promise = "fulfilled") =>
               calls[i].response.kind = "ok"
        /\ (calls[i].op = "queryContract" /\ calls[i].response.kind = "error") =>
               /\ calls[i].promise = "fulfilled"
               /\ calls[i].result.f.success = Bool(FALSE)

(***************************************************************************)
(* C16 as stated: query is the sole operation for which a failure is a     *)
(* return value; getReceipt, getBalance and estimateGas raise their error  *)
(* when the transport attempt fails and return nothing then, and when the  *)
(* attempt succeeds they return the remote's receipt, balance and gas      *)
(* estimate unchanged.                                                     *)
(***************************************************************************)
C16_ReadsReturnRemoteValue ==
    /\ OnlyQueryReturnsFailure
    /\ RaisesOnTransportFailure
    /\ \A i \in Issued :
           (calls[i].op \in RaisingReads /\ calls[i].response.kind = "ok") =>
               /\ calls[i].promise = "fulfilled"
               /\ calls[i].result = RemoteValue(calls[i].op, calls[i].response)

(***************************************************************************)
(* C16, amended: as stated, but a successful attempt hands on the remote's *)
(* value only if the response has a body: getReceipt returns the body as   *)
(* it is (null included), getBalance and estimateGas return the body's     *)
(* balance and gasEstimate unchanged when the body is not null, and raise  *)
(* their operation-specific error when it is null.                         *)
(***************************************************************************)
C16_ReadsRaiseOrReturnRemoteValue ==
    /\ OnlyQueryReturnsFailure
    /\ RaisesOnTransportFailure
    /\ \A i \in Issued :
           (calls[i].op \in RaisingReads /\ calls[i].response.kind = "ok") =>
               IF calls[i].op = "getTransactionReceipt"
                      \/ calls[i].response.data # Null
                   THEN /\ calls[i].promise = "fulfilled"
                        /\ calls[i].result
                               = RemoteValue(calls[i].op, calls[i].response)
                   ELSE /\ calls[i].promise = "rejected"
                        /\ calls[i].result
                               = RaisedBy(calls[i].op, calls[i].response)

\* A balance lookup returned the remote's balance and a receipt lookup
\* failed in the transport.
C16_Witness ==
    \E i, j \in Issued :
        /\ calls[i].op = "getBalance"
        /\ calls[i].response.kind = "ok"
        /\ calls[i].response.data # Null
        /\ calls[i].promise = "fulfilled"
        /\ calls[j].op = "getTransactionReceipt"
        /\ calls[j].response.kind = "error"

(***************************************************************************)
(* C17: numeric-string invariant.  Every value getBalance returns, and     *)
(* every amount TokenContract.balanceOf returns, is a string and never a   *)
(* number, for every successful remote response, one that sends the amount *)
(* as a number included.                                                   *)
(***************************************************************************)
C17_AmountsAreStrings ==
    /\ \A i \in Invoked("getBalance") :
           calls[i].promise = "fulfilled" => calls[i].result.t = "string"
    /\ \A k \in DOMAIN hcalls :
           (hcalls[k].method = "balanceOf" /\ hcalls[k].promise = "fulfilled"
               /\ calls[hcalls[k].inner].response.kind = "ok"
               /\ calls[hcalls[k].inner].response.data # Null) =>
               hcalls[k].result.t = "string"

(***************************************************************************)
(* C18: calls in flight on one client are independent and unordered.  An   *)
(* execute call on a client with a credential sends its request in the     *)
(* step that invokes it, whatever calls are pending; every pending call    *)
(* can be answered next, whatever its place among the pending ones; a step *)
(* settles one call at most and changes no other; and an execute call that *)
(* has completed holds the outcome of its own request's answer.            *)
(***************************************************************************)
InFlight == {i \in Issued : calls[i].promise = "pending"}

\* The outcome execute makes of the answer to its request.
ExecuteOutcome(response) ==
    IF response.kind = "ok" /\ response.data # Null
        THEN Fulfil(Obj([txHash |-> Get(response.data, "txHash"),
                         blockNumber |-> Get(response.data, "blockNumber"),
                         gasUsed |-> Get(response.data, "gasUsed"),
                         success |-> Bool(TRUE)]))
        ELSE Reject(OperationPrefix("executeTransaction")
                    \o OriginalCause("executeTransaction", response))

IndependentStep ==
    /\ \A i \in Issued : calls'[i] # calls[i] =>
           /\ i \in InFlight
           /\ \A j \in Issued \ {i} : calls'[j] = calls[j]
           /\ requests' = requests
    /\ Len(calls') = Len(calls) + 1 =>
           LET new == Len(calls')
           IN  (calls'[new].op = "executeTransaction"
                   /\ Truthy(config.privateKey)) =>
                   /\ calls'[new].promise = "pending"
                   /\ requests' = Append(requests, requests'[Len(requests')])
                   /\ requests'[Len(requests')].call = new
                   /\ requests'[Len(requests')].url = "/execute"

C18_InFlightIndependent ==
    /\ [][IndependentStep]_vars
    /\ [](\A i \in InFlight : ENABLED Timeout(i))
    /\ [](\A i \in Invoked("executeTransaction") :
              (Settled(i) /\ calls[i].response # NoResponse) =>
                  [promise |-> calls[i].promise, result |-> calls[i].result]
                      = ExecuteOutcome(calls[i].response))

\* Two execute calls were in flight together; the second was answered, with
\* a result, while the first is still pending.
C18_Witness ==
    /\ Len(calls) = 2
    /\ calls[1].op = "executeTransaction"
    /\ calls[2].op = "executeTransaction"
    /\ calls[1].promise = "pending"
    /\ calls[2].promise = "fulfilled"
    /\ Len(RequestsOf(1)) = 1

(***************************************************************************)
(* C19: awaiting orders two writes.  For a caller that awaits each execute *)
(* call before it makes the next, a request is sent only when every call   *)
(* made before has completed and every request sent before has been        *)
(* answered, by a response or a failure: the first call's request is sent  *)
(* and its answer received before the second call's request is sent.       *)
(***************************************************************************)
Answered(i) == calls[i].response # NoResponse

AwaitedStep ==
    requests' # requests =>
        /\ \A i \in Issued : Settled(i)
        /\ \A r \in DOMAIN requests : Answered(requests[r].call)
        /\ requests' = Append(requests, requests'[Len(requests')])
        /\ requests'[Len(requests')].call = Len(calls')

C19_AwaitOrdersWrites ==
    /\ [][AwaitedStep]_vars
    /\ [](\A r, s \in DOMAIN requests :
              r < s => /\ requests[r].call < requests[s].call
                       /\ Answered(requests[r].call))

\* Two execute calls both went to the remote, the second after the first
\* was answered.
C19_Witness ==
    /\ Len(requests) = 2
    /\ calls[1].op = "executeTransaction"
    /\ calls[2].op = "executeTransaction"
    /\ Answered(1)
    /\ RequestsOf(2) # <<>>

(***************************************************************************)
(* C20: every call is a stateless round trip.  Whether a call sends a      *)
(* request depends on its operation and the configuration only; what a     *)
(* completed call returned or raised is a function of the configuration,   *)
(* the operation and the transport's answer to the call's own request;     *)
(* and two calls of one operation that got the same answer have the same   *)
(* outcome, whatever calls were made before either.                        *)
(***************************************************************************)
Outcome(i) == [promise |-> calls[i].promise, result |-> calls[i].result]

\* The call fails before the transport is tried.
FailsLocally(op) == op = "executeTransaction" /\ ~Truthy(config.privateKey)

C20_StatelessRoundTrip ==
    /\ \A i \in Issued :
           IF FailsLocally(calls[i].op)
               THEN /\ RequestsOf(i) = <<>>
                    /\ Outcome(i) = Reject(MissingCredentialError.v)
               ELSE /\ Len(RequestsOf(i)) = 1
                    /\ Settled(i) <=> Answered(i)
                    /\ Settled(i) =>
                           Outcome(i)
                               = Continuation(calls[i].op, calls[i].response)
    /\ \A i, j \in Issued :
           (/\ calls[i].op = calls[j].op
            /\ calls[i].response = calls[j].response
            /\ Settled(i)
            /\ Settled(j)) => Outcome(i) = Outcome(j)

\* Two calls of one operation, the second made after the first, both got
\* the same successful answer and have completed.
C20_Witness ==
    /\ Len(calls) = 2
    /\ calls[1].op = calls[2].op
    /\ calls[1].response.kind = "ok"
    /\ calls[2].response = calls[1].response
    /\ Settled(1)
    /\ Settled(2)

(***************************************************************************)
(* C21: result shapes follow the remote response field by field.  A deploy *)
(* that returned holds contractAddress, transactionHash (the response's    *)
(* txHash) and blockNumber of its response; an execute that returned holds *)
(* txHash, blockNumber and gasUsed of its response and success: true; and  *)
(* a response with a body makes the call return.  With credential k1, a    *)
(* deploy answered 0xabc, 0x1, 10 returns these, and an execute answered   *)
(* 0x2, 11, 21000 returns them with success: true.                         *)
(***************************************************************************)
DeploymentOf(data) ==
    Obj([contractAddress |-> Get(data, "contractAddress"),
         transactionHash |-> Get(data, "txHash"),
         blockNumber |-> Get(data, "blockNumber")])

TransactionResultOf(data) ==
    Obj([txHash |-> Get(data, "txHash"),
         blockNumber |-> Get(data, "blockNumber"),
         gasUsed |-> Get(data, "gasUsed"),
         success |-> Bool(TRUE)])

ExampleDeployBody ==
    Obj([contractAddress |-> Str("0xabc"), txHash |-> Str("0x1"),
         blockNumber |-> Num("10")])

ExampleExecuteBody ==
    Obj([txHash |-> Str("0x2"), blockNumber |-> Num("11"),
         gasUsed |-> Num("21000")])

C21_ResultShapes ==
    /\ \A i \in Invoked("deployContract") :
           /\ calls[i].promise = "fulfilled" =>
                  /\ calls[i].response.kind = "ok"
                  /\ calls[i].result = DeploymentOf(calls[i].response.data)
           /\ (calls[i].response.kind = "ok"
                  /\ calls[i].response.data # Null) =>
                  calls[i].promise = "fulfilled"
           /\ calls[i].response = OkResponse(ExampleDeployBody) =>
                  calls[i].result =
                      Obj([contractAddress |-> Str("0xabc"),
                           transactionHash |-> Str("0x1"),
                           blockNumber |-> Num("10")])
    /\ \A i \in Invoked("executeTransaction") :
           /\ calls[i].promise = "fulfilled" =>
                  /\ calls[i].response.kind = "ok"
                  /\ calls[i].result
                         = TransactionResultOf(calls[i].response.data)
           /\ (calls[i].response.kind = "ok"
                  /\ calls[i].response.data # Null) =>
                  calls[i].promise = "fulfilled"
           /\ calls[i].response = OkResponse(ExampleExecuteBody) =>
                  calls[i].result =
                      Obj([txHash |-> Str("0x2"), blockNumber |-> Num("11"),
                           gasUsed |-> Num("21000"), success |-> Bool(TRUE)])

\* The example: with credential k1 a deploy was answered 0xabc, 0x1, 10 and
\* the execute against 0xabc that followed was answered 0x2, 11, 21000.
C21_Witness ==
    /\ config.privateKey = Str("k1")
    /\ Len(calls) = 2
    /\ calls[1].op = "deployContract"
    /\ calls[1].response = OkResponse(ExampleDeployBody)
    /\ calls[2].op = "executeTransaction"
    /\ calls[2].response = OkResponse(ExampleExecuteBody)
    /\ requests[2].body.contractAddress = Str("0xabc")
    /\ calls[1].promise = "fulfilled"
    /\ calls[2].promise = "fulfilled"

(***************************************************************************)
(* C22: an execute call that the client reports Failed because of a        *)
(* timeout may have been applied by the remote service.  The client never  *)
(* resubmits: the requests of a call that was made never change, the       *)
(* remote receives one request at most for an execute call, and it applies *)
(* only calls whose one request it received, so a second effect takes a    *)
(* second call.                                                            *)
(***************************************************************************)
NoResubmission ==
    \A i \in Issued : RequestsOf(i)' = RequestsOf(i)

C22_TimedOutMayBeApplied ==
    /\ [][NoResubmission]_vars
    /\ [](\A i \in Invoked("executeTransaction") :
              /\ Len(RequestsOf(i)) <= 1
              /\ i \in applied => Len(RequestsOf(i)) = 1
              /\ TimedOut(i) => /\ Lifecycle(i) = "Failed"
                                /\ Len(RequestsOf(i)) = 1)

\* Client Failed, remote applied: an execute timed out after the remote
\* service had applied it, and its one request was not sent again.
C22_Witness ==
    \E i \in Invoked("executeTransaction") :
        /\ TimedOut(i)
        /\ Lifecycle(i) = "Failed"
        /\ i \in applied
        /\ Len(RequestsOf(i)) = 1

(***************************************************************************)
(* C23: a helper deploy that fails (the client's deploy raises) leaves the *)
(* address the helper holds unchanged.  A helper with no address stays     *)
(* not deployed, and a helper that held address A keeps A: while no deploy *)
(* of a helper has succeeded, each of its methods fails as not deployed if *)
(* it was constructed without an address, and sends its request to the     *)
(* address it was constructed with otherwise.                              *)
(***************************************************************************)
\* The deploys of h that this step completes with a failure.
DeployFails(h) ==
    {k \in DOMAIN hcalls : /\ hcalls[k].helper = h
                           /\ hcalls[k].method = "deploy"
                           /\ hcalls[k].promise = "pending"
                           /\ hcalls'[k].promise = "rejected"}

DeploysFailed(h) ==
    {k \in DOMAIN hcalls : /\ hcalls[k].helper = h
                           /\ hcalls[k].method = "deploy"
                           /\ hcalls[k].promise = "rejected"}

\* The requests helper call k sent through the client.
HelperRequests(k) ==
    SelectSeq(requests, LAMBDA r : r.call = hcalls[k].inner)

FailedDeployStep ==
    \A h \in DOMAIN helpers :
        DeployFails(h) # {} =>
            /\ helpers'[h] = helpers[h]
            /\ NotDeployed(h)' = NotDeployed(h)

C23_FailedDeployKeepsAddress ==
    /\ [][FailedDeployStep]_vars
    /\ [](\A h \in DOMAIN helpers :
              DeploysDone(h) = {} =>
                  /\ helpers[h].contractAddress = helpers[h].given
                  /\ \A k \in DOMAIN hcalls :
                         (hcalls[k].helper = h
                             /\ hcalls[k].method \in HelperMethods) =>
                             IF Truthy(helpers[h].given)
                                 THEN \A r \in DOMAIN HelperRequests(k) :
                                          HelperRequests(k)[r].body.contractAddress
                                              = helpers[h].given
                                 ELSE hcalls[k].result = NotDeployedError)

\* The deploy of a helper constructed with 0xabc has failed, the helper
\* holds 0xabc, and a method called after the deploy sent its request there.
C23_Witness ==
    \E h \in DOMAIN helpers : \E k \in DeploysFailed(h) :
        /\ helpers[h].given = Str("0xabc")
        /\ helpers[h].contractAddress = Str("0xabc")
        /\ \E l \in DOMAIN hcalls :
               /\ l > k
               /\ hcalls[l].helper = h
               /\ hcalls[l].method \in HelperMethods
               /\ HelperRequests(l) # <<>>
               /\ HelperRequests(l)[1].body.contractAddress = Str("0xabc")

(***************************************************************************)
(* C24: once the address of a helper is known, passed at construction or   *)
(* captured from a deploy that succeeded, the helper stays deployed and no *)
(* method of it fails with the not-deployed error, whatever deploys and    *)
(* calls follow, a deploy whose successful response carries no contract    *)
(* address included.                                                       *)
(***************************************************************************)
AddressKnown(h) ==
    \/ Truthy(helpers[h].given)
    \/ \E k \in DeploysDone(h) : Truthy(hcalls[k].result.f.contractAddress)

C24_KnownAddressStays ==
    /\ \A h \in DOMAIN helpers : AddressKnown(h) => ~NotDeployed(h)
    /\ \A k \in DOMAIN hcalls :
           Truthy(helpers[hcalls[k].helper].given) =>
               hcalls[k].result # NotDeployedError

(***************************************************************************)
(* C25: when deploy of a helper is called more than once, the helper holds *)
(* the address of the successful deploy that completed last.  Each deploy  *)
(* that completes with success sets the address to its own, whether or not *)
(* a deploy issued after it has completed already; nothing else changes    *)
(* the address; and a method invoked in between sends its request to the   *)
(* address held then, that of the deploy that completed before.            *)
(***************************************************************************)
DeployedAddress(k) == hcalls[k].result.f.contractAddress

RedeployStep ==
    /\ \A h \in DOMAIN helpers :
           IF DeployCompletes(h) = {}
               THEN helpers'[h].contractAddress = helpers[h].contractAddress
               ELSE \A k \in DeployCompletes(h) :
                        helpers'[h].contractAddress
                            = Get(calls'[hcalls[k].inner].result,
                                  "contractAddress")
    /\ HelperInvoked =>
           LET new == hcalls'[Len(hcalls')]
           IN  new.method \in HelperMethods =>
                   IF Truthy(helpers[new.helper].contractAddress)
                       THEN /\ requests' # requests
                            /\ requests'[Len(requests')].body.contractAddress
                                   = helpers[new.helper].contractAddress
                       ELSE requests' = requests

C25_LastCompletedDeployWins ==
    /\ [][RedeployStep]_vars
    /\ [](\A h \in DOMAIN helpers :
              helpers[h].contractAddress
                  \in {helpers[h].given}
                          \cup {DeployedAddress(k) : k \in DeploysDone(h)})
    /\ [](\A h \in DOMAIN helpers :
              (\E k \in DeploysDone(h) :
                   \A l \in DeploysDone(h) :
                       DeployedAddress(l) = DeployedAddress(k)) =>
                  \A k \in DeploysDone(h) :
                      helpers[h].contractAddress = DeployedAddress(k))

\* Two deploys of a helper constructed without an address were in flight
\* together.  The second completed first, with 0xabc; balanceOf, called
\* then, went to 0xabc; the first completed last, with 0xdef, which the
\* helper holds.
C25_Witness ==
    /\ Len(hcalls) = 3
    /\ helpers["token"].given = Undefined
    /\ hcalls[1].method = "deploy"
    /\ hcalls[2].method = "deploy"
    /\ hcalls[3].method = "balanceOf"
    /\ hcalls[1].promise = "fulfilled"
    /\ hcalls[2].promise = "fulfilled"
    /\ DeployedAddress(1) = Str("0xdef")
    /\ DeployedAddress(2) = Str("0xabc")
    /\ HelperRequests(3) # <<>>
    /\ HelperRequests(3)[1].body.contractAddress = Str("0xabc")
    /\ helpers["token"].contractAddress = Str("0xdef")

(***************************************************************************)
(* C26: a helper method invoked while the first deploy of the helper is in *)
(* flight fails with the not-deployed error and sends no request, even if  *)
(* the remote has applied the deploy already and the deploy succeeds       *)
(* later.  The address is captured only when the response of the deploy is *)
(* received: a helper constructed without an address holds none while no   *)
(* deploy of it has returned.                                              *)
(***************************************************************************)
DeploysInFlight(h) ==
    {k \in DOMAIN hcalls : /\ hcalls[k].helper = h
                           /\ hcalls[k].method = "deploy"
                           /\ hcalls[k].promise = "pending"}

FirstDeployInFlight(h) ==
    /\ helpers[h].given = Undefined
    /\ DeploysDone(h) = {}
    /\ DeploysInFlight(h) # {}

InFlightStep ==
    HelperInvoked =>
        LET new == hcalls'[Len(hcalls')]
        IN  (new.method \in HelperMethods
                /\ FirstDeployInFlight(new.helper)) =>
                /\ new.promise = "rejected"
                /\ new.result = NotDeployedError
                /\ requests' = requests
                /\ calls' = calls

C26_InFlightDeployNotDeployed ==
    /\ [][InFlightStep]_vars
    /\ [](\A h \in DOMAIN helpers :
              FirstDeployInFlight(h) =>
                  /\ helpers[h].contractAddress = Undefined
                  /\ NotDeployed(h))

\* The deploy of a helper constructed without an address has succeeded with
\* an address; a method called after the deploy and before its response
\* failed as not deployed, and the only request is that of the deploy.
C26_Witness ==
    \E h \in DOMAIN helpers :
        /\ helpers[h].given = Undefined
        /\ Len(hcalls) = 2
        /\ hcalls[1].helper = h
        /\ hcalls[1].method = "deploy"
        /\ hcalls[1].promise = "fulfilled"
        /\ Truthy(DeployedAddress(1))
        /\ hcalls[2].helper = h
        /\ hcalls[2].method \in HelperMethods
        /\ hcalls[2].result = NotDeployedError
        /\ Len(requests) = 1

(***************************************************************************)
(* C27: the read methods of the helpers (balanceOf, ownerOf) on a helper   *)
(* with an address never raise for a failure of the transport or of the    *)
(* remote: they return null then, which is also what they return for a     *)
(* remote result of null.  The write methods (transfer, approve, mint)     *)
(* raise the failure of execute as it is.                                  *)
(***************************************************************************)
HelperReads == {"balanceOf", "ownerOf"}

HelperWrites == {"transfer", "approve", "mint"}

\* The helper calls of these methods that went to the client.
Delegated(methods) ==
    {k \in DOMAIN hcalls : hcalls[k].method \in methods /\ hcalls[k].inner # 0}

\* The answer to the client call a helper call awaits, or awaited.
AnswerTo(k) == calls[hcalls[k].inner].response

LookupFailed(k) ==
    \/ AnswerTo(k).kind = "error"
    \/ AnswerTo(k).kind = "ok" /\ AnswerTo(k).data = Null

C27_HelperReadsReturnNull ==
    /\ \A k \in Delegated(HelperReads) :
           /\ hcalls[k].promise # "rejected"
           /\ hcalls[k].promise = "pending" <=> AnswerTo(k) = NoResponse
           /\ LookupFailed(k) =>
                  /\ hcalls[k].promise = "fulfilled"
                  /\ hcalls[k].result = Null
           /\ AnswerTo(k) = OkResponse(Obj([result |-> Null])) =>
                  /\ hcalls[k].promise = "fulfilled"
                  /\ hcalls[k].result = Null
    /\ \A k \in Delegated(HelperWrites) :
           /\ calls[hcalls[k].inner].promise = "rejected" =>
                  /\ hcalls[k].promise = "rejected"
                  /\ hcalls[k].result = calls[hcalls[k].inner].result
           /\ AnswerTo(k).kind = "error" =>
                  /\ hcalls[k].promise = "rejected"
                  /\ hcalls[k].result =
                         Err("Transaction execution failed: "
                             \o AnswerTo(k).message)

\* Two lookups returned null: one whose request failed, one whose remote
\* result was null.
C27_Witness ==
    \E k, l \in Delegated(HelperReads) :
        /\ AnswerTo(k).kind = "error"
        /\ AnswerTo(l) = OkResponse(Obj([result |-> Null]))
        /\ hcalls[k].promise = "fulfilled"
        /\ hcalls[l].promise = "fulfilled"
        /\ hcalls[k].result = hcalls[l].result

(***************************************************************************)
(* C28: the credential and the address are tested by truthiness.  A client *)
(* whose credential is the empty string behaves as one without credential: *)
(* every execute fails with the missing-credential error and sends no      *)
(* request.  A helper constructed with the empty string for address        *)
(* behaves as one not deployed: while no deploy of it has succeeded, every *)
(* method of it fails with the not-deployed error and sends no request.    *)
(***************************************************************************)
EmptyString == Str("")

EmptyAddressStep ==
    HelperInvoked =>
        LET new == hcalls'[Len(hcalls')]
        IN  (new.method \in HelperMethods
                /\ helpers[new.helper].given = EmptyString
                /\ DeploysDone(new.helper) = {}) =>
                /\ new.promise = "rejected"
                /\ new.result = NotDeployedError
                /\ new.inner = 0
                /\ requests' = requests
                /\ calls' = calls

C28_EmptyStringIsAbsent ==
    /\ [][EmptyAddressStep]_vars
    /\ [](config.privateKey = EmptyString =>
              \A i \in Invoked("executeTransaction") :
                  /\ calls[i].promise = "rejected"
                  /\ calls[i].result = MissingCredentialError
                  /\ RequestsOf(i) = <<>>)
    /\ [](\A h \in DOMAIN helpers :
              (helpers[h].given = EmptyString /\ DeploysDone(h) = {}) =>
                  /\ NotDeployed(h)
                  /\ \A k \in DOMAIN hcalls :
                         (hcalls[k].helper = h
                             /\ hcalls[k].method \in HelperMethods) =>
                             /\ hcalls[k].result = NotDeployedError
                             /\ hcalls[k].inner = 0)

\* On a client whose credential is the empty string an execute has failed,
\* as has a method of a helper constructed with the empty string, and no
\* request was sent.
C28_Witness ==
    /\ config.privateKey = EmptyString
    /\ Invoked("executeTransaction") # {}
    /\ \E k \in DOMAIN hcalls :
           /\ helpers[hcalls[k].helper].given = EmptyString
           /\ hcalls[k].method \in HelperMethods
           /\ hcalls[k].result = NotDeployedError
    /\ requests = <<>>

============================================================================
